---- MODULE Spec2Model ----
(***************************************************************************)
(* Model of sync.py: a one-pass pipeline that opens a pull request from    *)
(* HEAD_BRANCH into BASE_BRANCH on a hosted git platform.                  *)
(*                                                                         *)
(*   load environment -> pr_already_exists -> compare_branches             *)
(*     -> analyze_commits -> [analyze_with_ai] -> create_pull_request      *)
(*     -> add_labels -> add_reviewers                                      *)
(*                                                                         *)
(* Texts.  A Python str is modelled as a sequence of symbols.  A symbol is *)
(* one data character, the line feed NL, or one fixed fragment of an       *)
(* f-string template that holds no line feed.  Concatenation is \o, and    *)
(* "\n".join, split("\n"), splitlines() and [:7] are computed on these     *)
(* sequences as Python computes them on characters.  The source's non-     *)
(* ASCII glyphs (emoji, arrow, en dash) and the backtick (written ') are   *)
(* transliterated inside the fragments: the module's strings are ASCII.    *)
(***************************************************************************)
EXTENDS Integers, Sequences, FiniteSets, TLC

VARIABLES
    platform,   \* the hosted git platform: its open pull requests and the diff
    runs,       \* per invocation of the script: the state of that process
    commits,    \* analyze_commits called on its own: the commit list given
    files,      \* ... and the file list given
    environ,    \* ... the process environment the module was loaded under
    report,     \* ... the text returned by the first call, or None
    again       \* ... the text returned by a second call, or None

vars == <<platform, runs, commits, files, environ, report, again>>

-----------------------------------------------------------------------------
(* Texts *)

NL == "\n"
CR == "\r"

\* A Python value that may be None: None is the empty tuple, any other value x
\* is the one-element tuple Some(x), and The(m) is the value held
None == <<>>
Some(x) == <<x>>
The(m) == m[1]

Digit == <<"0", "1", "2", "3", "4", "5", "6", "7", "8", "9">>

\* str(n) of a non-negative int, as an f-string renders {n}
RECURSIVE Decimal(_)
Decimal(n) ==
    IF n < 10 THEN <<Digit[n + 1]>>
    ELSE Decimal(n \div 10) \o <<Digit[(n % 10) + 1]>>

\* s[:k]
Take(s, k) == SubSeq(s, 1, IF k < Len(s) THEN k ELSE Len(s))

\* s[k:]  (k counted from 0, as the Python slice)
Drop(s, k) == SubSeq(s, k + 1, Len(s))

\* index of the first occurrence of symbol c in s, or 0
RECURSIVE IndexOf(_, _, _)
IndexOf(s, c, i) ==
    IF i > Len(s) THEN 0
    ELSE IF s[i] = c THEN i
    ELSE IndexOf(s, c, i + 1)

\* s.split("\n"): the list of pieces between line feeds; never empty
RECURSIVE Split(_)
Split(s) ==
    LET i == IndexOf(s, NL, 1)
    IN  IF i = 0 THEN <<s>>
        ELSE <<SubSeq(s, 1, i - 1)>> \o Split(Drop(s, i))

\* the line boundaries of str.splitlines() besides "\r\n": line feed,
\* carriage return, vertical tab, form feed, file/group/record separator,
\* next line, line separator, paragraph separator
LineBoundaries ==
    { NL, CR, "U+000B", "\f", "U+001C", "U+001D", "U+001E",
      "U+0085", "U+2028", "U+2029" }

\* index of the first line boundary in s at or after i, or 0
RECURSIVE IndexOfBoundary(_, _)
IndexOfBoundary(s, i) ==
    IF i > Len(s) THEN 0
    ELSE IF s[i] \in LineBoundaries THEN i
    ELSE IndexOfBoundary(s, i + 1)

\* s.splitlines(): pieces between line boundaries, "\r\n" counting as one;
\* no trailing empty piece, and [] for the empty string
RECURSIVE Splitlines(_)
Splitlines(s) ==
    IF s = <<>> THEN <<>>
    ELSE LET i == IndexOfBoundary(s, 1)
         IN  IF i = 0 THEN <<s>>
             ELSE LET w == IF s[i] = CR /\ i < Len(s) /\ s[i + 1] = NL
                           THEN 2 ELSE 1
                  IN  <<SubSeq(s, 1, i - 1)>> \o Splitlines(Drop(s, i + w - 1))

\* sep.join(parts)
RECURSIVE Join(_, _)
Join(sep, parts) ==
    IF parts = <<>> THEN <<>>
    ELSE IF Len(parts) = 1 THEN parts[1]
    ELSE parts[1] \o sep \o Join(sep, Tail(parts))

\* d.get(key, default) on a dict modelled as a record
Get(d, key, default) == IF key \in DOMAIN d THEN d[key] ELSE default

-----------------------------------------------------------------------------
(* Configuration (module level of sync.py) *)

\* os.getenv(name, default): the variable's value when it is set (the empty
\* string included), the default when it is not
Getenv(env, name, default) == IF name \in DOMAIN env THEN env[name] ELSE default

\* BASE_BRANCH and HEAD_BRANCH of a process loaded under environment env
BASE_BRANCH(env) == Getenv(env, "BASE_BRANCH", <<"develop">>)
HEAD_BRANCH(env) == Getenv(env, "HEAD_BRANCH", <<"release123">>)

-----------------------------------------------------------------------------
(* STEP 3: analyze_commits *)

\* faulty variant of the commit line: the message is not cut at its first
\* line feed
CommitLine_wholeMessage(c) ==
    <<"- '">> \o Take(c.sha, 7) \o <<"' - ">> \o c.commit.message
        \o <<" _(by ">> \o c.commit.author.name \o <<")_">>

\* the line appended per commit
CommitLine(c) ==
    LET msg    == Split(c.commit.message)[1]
        sha    == Take(c.sha, 7)
        author == c.commit.author.name
    IN  <<"- '">> \o sha \o <<"' - ">> \o msg \o <<" _(by ">> \o author \o <<")_">>

\* the line appended per file
FileLine(f) ==
    <<"- '">> \o f.filename \o <<"' (+">> \o Decimal(Get(f, "additions", 0))
        \o <<" / -">> \o Decimal(Get(f, "deletions", 0)) \o <<")">>

\* faulty variant of the report: the file lines are appended last file first
analyze_commits_filesReversed(cs, fs, env) ==
    LET body ==
          << <<"## Missing Fix Analysis", NL>>,
             <<"**Source:** '">> \o HEAD_BRANCH(env) \o <<"'">>,
             <<"**Target:** '">> \o BASE_BRANCH(env) \o <<"'">>,
             <<"**Commits:** ">> \o Decimal(Len(cs)) \o <<NL>>,
             <<"### Commit Summary">> >>
          \o [i \in 1..Len(cs) |-> CommitLine(cs[i])]
          \o << <<NL, "### Files Impacted">> >>
          \o [j \in 1..Len(fs) |-> FileLine(fs[Len(fs) + 1 - j])]
          \o << <<NL, "---", NL, "_Auto-generated backport analysis._">> >>
    IN  Join(<<NL>>, body)

\* env: the environment the module was loaded under (its globals)
analyze_commits(cs, fs, env) ==
    LET body ==
          << <<"## Missing Fix Analysis", NL>>,
             <<"**Source:** '">> \o HEAD_BRANCH(env) \o <<"'">>,
             <<"**Target:** '">> \o BASE_BRANCH(env) \o <<"'">>,
             <<"**Commits:** ">> \o Decimal(Len(cs)) \o <<NL>>,
             <<"### Commit Summary">> >>
          \o [i \in 1..Len(cs) |-> CommitLine(cs[i])]
          \o << <<NL, "### Files Impacted">> >>
          \o [j \in 1..Len(fs) |-> FileLine(fs[j])]
          \o << <<NL, "---", NL, "_Auto-generated backport analysis._">> >>
    IN  Join(<<NL>>, body)

-----------------------------------------------------------------------------
(* HTTP and JSON, as the requests library hands them to the script *)

JList(items)   == [kind |-> "list", items |-> items]
JObject(flds)  == [kind |-> "object", fields |-> flds]
JInvalid       == [kind |-> "invalid"]

\* requests.get / requests.post raised (no response object)
Raised == [raised |-> TRUE]

Http(status, text, json) ==
    [raised |-> FALSE, status_code |-> status, text |-> text, json |-> json]

\* len(x) of a parsed JSON list or object
PyLen(j) == IF j.kind = "list" THEN Len(j.items) ELSE Cardinality(DOMAIN j.fields)

\* the error object the platform sends with a 4xx status
ErrorObject(msg) == JObject([message |-> msg, documentation_url |-> <<"docs">>])

-----------------------------------------------------------------------------
(* Process exits *)

Return            == [code |-> 0, kind |-> "return", msg |-> <<>>]
Exit0             == [code |-> 0, kind |-> "exit", msg |-> <<>>]
SystemExit(msg)   == [code |-> 1, kind |-> "SystemExit", msg |-> msg]
Traceback(exc)    == [code |-> 1, kind |-> "Traceback", msg |-> <<exc>>]

-----------------------------------------------------------------------------
(* The platform and the inputs the runs draw *)

\* number of invocations of the script the model holds
Runs == {1, 2}

\* largest commit list and file list the platform's compare returns
PipeCommits == 2
PipeFiles == 1

\* the i-th commit of the compared range, as the compare endpoint lists it
SampleCommit(i) ==
    LET k == i % 3
    IN  [sha    |-> <<"a", "b", "c", "d", "e", "f", Digit[k + 1], "9">>,
         commit |-> [message |-> IF k = 1 THEN <<"F", "i", "x", NL, "m", "o", "r", "e">>
                                 ELSE IF k = 2 THEN <<>>
                                 ELSE <<"B", "u", "m", "p">>,
                     author  |-> [name |-> IF k = 1 THEN <<"A", "n", "n">>
                                           ELSE <<"B", "o">>]]]

\* the i-th changed file; the first carries no additions/deletions keys
SampleFile(i) ==
    IF i % 2 = 1 THEN [filename |-> <<"a", ".", "p", "y">>]
    ELSE [filename |-> <<"b", ".", "p", "y">>, additions |-> 12, deletions |-> 3]

Diffs ==
    { [commits |-> [i \in 1..n |-> SampleCommit(i)],
       files   |-> [i \in 1..m |-> SampleFile(i)]] :
        n \in 0..PipeCommits, m \in 0..PipeFiles }

\* title of the pull request (create_pull_request)
Title(env) == <<"sync ">> \o HEAD_BRANCH(env) \o <<" -> ">> \o BASE_BRANCH(env)

\* an open pull request for HEAD_BRANCH into BASE_BRANCH
Pull(number, body, env) ==
    [number |-> number, title |-> Title(env), head |-> HEAD_BRANCH(env),
     base |-> BASE_BRANCH(env), body |-> body]

\* the platform as an invocation under env finds it: no open pull request
\* for its head/base pair or one, and the diff of the pair
Platforms(env) ==
    { [pulls |-> p, diff |-> d] :
        p \in { <<>>, <<Pull(1, <<"earlier">>, env)>> }, d \in Diffs }

\* the flags and the required variables of an environment
Flags ==
    [required : BOOLEAN, ENABLE_AI : BOOLEAN, DRY_RUN : BOOLEAN]

\* the branch variables when they are set: both to other branches, only
\* HEAD_BRANCH, both to ""
BranchVars ==
    { [HEAD_BRANCH |-> <<"hotfix">>, BASE_BRANCH |-> <<"main">>],
      [HEAD_BRANCH |-> <<"hotfix">>],
      [HEAD_BRANCH |-> <<>>, BASE_BRANCH |-> <<>>] }

\* the process environment of one invocation: HEAD_BRANCH and BASE_BRANCH
\* unset, or set
Envs ==
    Flags \cup { f @@ b : f \in Flags, b \in BranchVars }

\* two environments name the same head/base pair
SamePair(e1, e2) ==
    HEAD_BRANCH(e1) = HEAD_BRANCH(e2) /\ BASE_BRANCH(e1) = BASE_BRANCH(e2)

\* the open pull requests of the platform for the pair env names
OpenFor(env) ==
    SelectSeq(platform.pulls,
              LAMBDA p : p.head = HEAD_BRANCH(env) /\ p.base = BASE_BRANCH(env))

\* GET /pulls?state=open&head=..&base=..: the answer, or a failure
GuardResponses(env) ==
    { Raised,
      Http(200, <<"[..]">>, JList(OpenFor(env))),
      Http(401, <<"Bad credentials">>, ErrorObject(<<"Bad credentials">>)),
      Http(502, <<"<html>Bad Gateway</html>">>, JInvalid) }

\* GET /compare/base...head
CompareResponses ==
    { Raised,
      Http(200, <<"{..}">>, JObject(platform.diff)),
      Http(200, <<"{}">>, JObject([url |-> <<"u">>])),
      Http(404, <<"Not Found">>, ErrorObject(<<"Not Found">>)) }

\* POST /pulls
CreateResponses ==
    LET number == Len(platform.pulls) + 1
    IN  { Raised,
          Http(201, <<"{..}">>,
               JObject([number |-> number, html_url |-> <<"url/", Digit[number + 1]>>])),
          Http(422, <<"Validation Failed">>, ErrorObject(<<"Validation Failed">>)) }

\* POST /issues/N/labels and POST /pulls/N/requested_reviewers
AnnotateResponses ==
    { Raised,
      Http(200, <<"[..]">>, JList(<<>>)),
      Http(422, <<"Validation Failed">>, ErrorObject(<<"Validation Failed">>)) }

\* what the optional summarizer meets: the import, the client construction,
\* the request, the content of the first choice
AIOutcomes ==
    { [client |-> "ImportError"], [client |-> "OpenAIError"],
      [client |-> "ok", request |-> "APIConnectionError"] }
    \cup { [client |-> "ok", request |-> "ok", content |-> c] :
             c \in { None, Some(<<>>), Some(<<"Risk: low">>) } }

-----------------------------------------------------------------------------
(* One invocation of the script *)

NewRun(env) ==
    [pc |-> "load", env |-> env, calls |-> <<>>, out |-> <<>>, exit |-> None,
     guard |-> None, compare |-> None, ai |-> None, create |-> None,
     labels |-> None, reviewers |-> None,
     commits |-> None, files |-> None, body |-> None, pr_number |-> None]

NoEnv == [required |-> TRUE, ENABLE_AI |-> FALSE, DRY_RUN |-> FALSE]

NotStarted == [NewRun(NoEnv) EXCEPT !.pc = "idle"]

\* the process ends with exit e
End(run, e) == [run EXCEPT !.pc = "done", !.exit = Some(e)]

\* print(text)
Say(run, text) == [run EXCEPT !.out = Append(@, text)]

\* a network call is issued
Call(run, name) == [run EXCEPT !.calls = Append(@, name)]

ReportIdle ==
    /\ commits = None /\ files = None /\ environ = NoEnv
    /\ report = None /\ again = None

-----------------------------------------------------------------------------
(* STEP 0: load environment *)

\* not all([GITHUB_TOKEN, REPO_OWNER, REPO_NAME])
MissingRequired(env) == ~env.required

LoadEnvironment(r) ==
    /\ runs[r].pc = "load"
    /\ runs' = [runs EXCEPT ![r] =
          IF MissingRequired(@.env)
          THEN End(@, SystemExit(<<"Missing required environment variables">>))
          ELSE [@ EXCEPT !.pc = "guard"]]
    /\ UNCHANGED <<platform, commits, files, environ, report, again>>

-----------------------------------------------------------------------------
(* STEP 1: pr_already_exists, and main's use of it *)

\* faulty variants of pr_already_exists: the guard never fires; the test is
\* inverted; one open pull request is not enough
pr_already_exists_never(resp) == PyLen(resp.json) < 0

pr_already_exists_inverted(resp) == PyLen(resp.json) = 0

pr_already_exists_two(resp) == PyLen(resp.json) > 1

\* return len(resp.json()) > 0
pr_already_exists(resp) == PyLen(resp.json) > 0

PrAlreadyExists(r) ==
    /\ runs[r].pc = "guard"
    /\ \E resp \in GuardResponses(runs[r].env) :
         LET run == [Call(runs[r], "guard") EXCEPT !.guard = Some(resp)]
         IN  runs' = [runs EXCEPT ![r] =
               IF resp.raised THEN End(run, Traceback("ConnectionError"))
               ELSE IF resp.json.kind = "invalid"
                    THEN End(run, Traceback("JSONDecodeError"))
               ELSE IF pr_already_exists(resp)
                    THEN End(Say(run, <<"PR already exists. Exiting.">>), Return)
               ELSE [run EXCEPT !.pc = "compare"]]
    /\ UNCHANGED <<platform, commits, files, environ, report, again>>

-----------------------------------------------------------------------------
(* STEP 2: compare_branches *)

\* faulty variant: only server errors count as failures
CompareFailed_5xx(resp) == resp.status_code >= 500

\* resp.status_code != 200
CompareFailed(resp) == resp.status_code # 200

\* faulty variant of the emptiness test: an empty list is let through
NoCommits_never(cs) == Len(cs) < 0

\* not commits
NoCommits(cs) == cs = <<>>

CompareBranches(r) ==
    /\ runs[r].pc = "compare"
    /\ \E resp \in CompareResponses :
         LET said == Say(runs[r], <<"Comparing branches: ">>
                                     \o BASE_BRANCH(runs[r].env)
                                     \o <<" <- ">> \o HEAD_BRANCH(runs[r].env))
             run  == [Call(said, "compare") EXCEPT !.compare = Some(resp)]
             cs   == Get(resp.json.fields, "commits", <<>>)
             fs   == Get(resp.json.fields, "files", <<>>)
         IN  runs' = [runs EXCEPT ![r] =
               IF resp.raised THEN End(run, Traceback("ConnectionError"))
               ELSE IF CompareFailed(resp)
                    THEN End(run, SystemExit(<<"Compare API failed: ">> \o resp.text))
               ELSE IF NoCommits(cs)
                    THEN End(Say(run, <<"No missing commits found.">>), Exit0)
               ELSE [Say(run, <<"Found ">> \o Decimal(Len(cs)) \o <<" missing commits">>)
                       EXCEPT !.pc = "analyze", !.commits = Some(cs), !.files = Some(fs)]]
    /\ UNCHANGED <<platform, commits, files, environ, report, again>>

-----------------------------------------------------------------------------
(* STEP 3 in main: body = analyze_commits(commits, files) *)

AnalyzeCommits(r) ==
    /\ runs[r].pc = "analyze"
    /\ LET run == runs[r]
       IN  runs' = [runs EXCEPT ![r] =
             [run EXCEPT !.pc = "ai",
                         !.body = Some(analyze_commits(The(run.commits),
                                                      The(run.files), run.env))]]
    /\ UNCHANGED <<platform, commits, files, environ, report, again>>

-----------------------------------------------------------------------------
(* STEP 4: analyze_with_ai, and main's use of it *)

\* the failures the try block of analyze_with_ai covers: the import and the
\* construction of the client
CaughtByTry(o) == o.client # "ok"

\* c['commit']['message'].splitlines()[0] raises IndexError for some commit
PromptRaises(cs) == \E i \in 1..Len(cs) : Splitlines(cs[i].commit.message) = <<>>

\* if ai_summary:
Truthy(x) == x # None /\ The(x) # <<>>

\* body += "\n\n## AI Review Insights\n" + ai_summary
WithInsights(body, ai_summary) ==
    body \o <<NL, NL, "## AI Review Insights", NL>> \o ai_summary

AnalyzeWithAI(r) ==
    /\ runs[r].pc = "ai"
    /\ \/ /\ ~runs[r].env.ENABLE_AI
          /\ runs' = [runs EXCEPT ![r].pc = "publish"]
       \/ /\ runs[r].env.ENABLE_AI
          /\ \E o \in AIOutcomes :
               LET run == runs[r]
               IN  runs' = [runs EXCEPT ![r] =
                     IF CaughtByTry(o)
                     THEN [Say(run, <<"AI disabled or OpenAI SDK missing">>)
                             EXCEPT !.pc = "publish", !.ai = Some(o)]
                     ELSE IF o.client # "ok"
                          THEN End([run EXCEPT !.ai = Some(o)], Traceback(o.client))
                     ELSE IF PromptRaises(The(run.commits))
                          THEN End([run EXCEPT !.ai = Some([client |-> "ok"])],
                                   Traceback("IndexError"))
                     ELSE IF o.request # "ok"
                          THEN End([Call(run, "completion") EXCEPT !.ai = Some(o)],
                                   Traceback(o.request))
                     ELSE [Call(run, "completion") EXCEPT
                             !.pc = "publish", !.ai = Some(o),
                             !.body = IF Truthy(o.content)
                                      THEN Some(WithInsights(The(@), The(o.content)))
                                      ELSE @]]
    /\ UNCHANGED <<platform, commits, files, environ, report, again>>

-----------------------------------------------------------------------------
(* STEP 5: create_pull_request *)

\* faulty variant: the flag is not consulted
DryRun_ignored(env) == FALSE

\* if DRY_RUN:
DryRun(env) == env.DRY_RUN

\* resp.status_code not in (200, 201)
CreateFailed(resp) == resp.status_code \notin {200, 201}

CreatePullRequest(r) ==
    /\ runs[r].pc = "publish"
    /\ \/ /\ DryRun(runs[r].env)
          /\ runs' = [runs EXCEPT ![r] =
                End(Say(Say(Say(@, <<"DRY-RUN MODE">>),
                            <<"PR Title:", " ">> \o Title(@.env)),
                        <<"PR Body:", NL, " ">> \o The(@.body)),
                    Exit0)]
          /\ UNCHANGED platform
       \/ /\ ~DryRun(runs[r].env)
          /\ \E resp \in CreateResponses :
               LET run == [Call(runs[r], "create") EXCEPT !.create = Some(resp)]
                   pr  == resp.json.fields
               IN  /\ runs' = [runs EXCEPT ![r] =
                         IF resp.raised THEN End(run, Traceback("ConnectionError"))
                         ELSE IF CreateFailed(resp)
                              THEN End(run, SystemExit(<<"PR creation failed: ">>
                                                        \o resp.text))
                         ELSE [Say(run, <<"PR created:", " ">> \o pr.html_url)
                                 EXCEPT !.pc = "labels", !.pr_number = Some(pr.number)]]
                   \* the platform opened the pull request it answers 201 for
                   /\ platform' =
                         IF ~resp.raised /\ resp.status_code = 201
                         THEN [platform EXCEPT
                                 !.pulls = Append(@, Pull(pr.number, The(runs[r].body),
                                                          runs[r].env))]
                         ELSE platform
    /\ UNCHANGED <<commits, files, environ, report, again>>

-----------------------------------------------------------------------------
(* STEP 6: add_labels, add_reviewers *)

\* faulty variant: no try/except around the call
add_labels_uncaught(resp) == IF resp.raised THEN "raises" ELSE "returns"

\* try: requests.post(...) except Exception: pass -- what leaves the function
add_labels(resp) == "returns"

add_reviewers(resp) == "returns"

AddLabels(r) ==
    /\ runs[r].pc = "labels"
    /\ \E resp \in AnnotateResponses :
         LET run == [Call(runs[r], "labels") EXCEPT !.labels = Some(resp)]
         IN  runs' = [runs EXCEPT ![r] =
               IF add_labels(resp) = "returns"
               THEN [run EXCEPT !.pc = "reviewers"]
               ELSE End(run, Traceback("ConnectionError"))]
    /\ UNCHANGED <<platform, commits, files, environ, report, again>>

AddReviewers(r) ==
    /\ runs[r].pc = "reviewers"
    /\ \E resp \in AnnotateResponses :
         LET run == [Call(runs[r], "reviewers") EXCEPT !.reviewers = Some(resp)]
         IN  runs' = [runs EXCEPT ![r] =
               IF add_reviewers(resp) = "returns"
               THEN End(run, Return)
               ELSE End(run, Traceback("ConnectionError"))]
    /\ UNCHANGED <<platform, commits, files, environ, report, again>>

-----------------------------------------------------------------------------
(* The pipeline: one invocation of the script, or two at once against the  *)
(* same branches.  Nothing coordinates two invocations; each is a process  *)
(* of its own and they meet only in the platform.                          *)

\* The invocations held are made for one head/base pair (their environments
\* may differ in everything else), and the platform state held is that pair's.
Init ==
    /\ runs \in [Runs -> {NotStarted} \cup {NewRun(env) : env \in Envs}]
    /\ runs[1].pc = "load"
    /\ \A r \in Runs : runs[r].pc = "load" => SamePair(runs[r].env, runs[1].env)
    /\ platform \in Platforms(runs[1].env)
    /\ ReportIdle

Next ==
    \E r \in Runs :
        \/ LoadEnvironment(r)
        \/ PrAlreadyExists(r)
        \/ CompareBranches(r)
        \/ AnalyzeCommits(r)
        \/ AnalyzeWithAI(r)
        \/ CreatePullRequest(r)
        \/ AddLabels(r)
        \/ AddReviewers(r)

Spec == Init /\ [][Next]_vars

-----------------------------------------------------------------------------
(* analyze_commits on its own: a pure function of the two lists *)

\* longest commit list and file list given to analyze_commits
MaxCommits == 2
MaxFiles == 3

Sha40 ==
    <<"3", "f", "a", "9", "c", "0", "7", "e", "1", "b",
      "2", "d", "4", "4", "a", "8", "0", "c", "6", "6",
      "5", "e", "9", "1", "7", "7", "b", "3", "d", "0",
      "f", "2", "8", "a", "c", "5", "1", "e", "6", "4">>

Commit(sha, message, name) ==
    [sha |-> sha, commit |-> [message |-> message, author |-> [name |-> name]]]

CommitPool ==
    { Commit(sha, <<"F", "i", "x", NL, "m", "o", "r", "e">>, <<"A", "n", "n">>) :
        sha \in { Sha40, Take(Sha40, 7), Take(Sha40, 5) } }
    \cup
    { Commit(<<"a", "b", "c", "d", "e", "f", "1", "2">>, m, <<"B", "o">>) :
        m \in { <<>>, <<"U", "p">>, <<NL, "b">>, <<"U", "p", NL>>,
                <<"U", "p", CR, NL, "b", NL, "c">>, <<"U", "p", "\f", "b">> } }

FilePool ==
    { [filename |-> <<"a", ".", "p", "y">>],
      [filename |-> <<"d", "/", "b", ".", "c">>, additions |-> 12, deletions |-> 3],
      [filename |-> <<"R", "E", "A", "D", "M", "E">>, additions |-> 0, deletions |-> 105] }

\* the sequences over pool of length at most n
SeqsUpTo(pool, n) == UNION { [1..k -> pool] : k \in 0..n }

InitReport ==
    /\ commits \in SeqsUpTo(CommitPool, MaxCommits)
    /\ files \in SeqsUpTo(FilePool, MaxFiles)
    /\ environ \in {NoEnv} \cup {NoEnv @@ b : b \in BranchVars}
    /\ report = None
    /\ again = None
    /\ platform = [pulls |-> <<>>, diff |-> [commits |-> <<>>, files |-> <<>>]]
    /\ runs = [r \in Runs |-> NotStarted]

\* first call
Render ==
    /\ report = None
    /\ report' = Some(analyze_commits(commits, files, environ))
    /\ UNCHANGED <<platform, runs, commits, files, environ, again>>

\* second call, same arguments
RenderAgain ==
    /\ report # None
    /\ again = None
    /\ again' = Some(analyze_commits(commits, files, environ))
    /\ UNCHANGED <<platform, runs, commits, files, environ, report>>

NextReport == Render \/ RenderAgain

SpecReport == InitReport /\ [][NextReport]_vars

-----------------------------------------------------------------------------
(* Vocabulary of the properties *)

\* the network call `name` was issued by the run
Issued(run, name) == \E i \in 1..Len(run.calls) : run.calls[i] = name

\* how many times it was issued
Count(run, name) == Cardinality({ i \in 1..Len(run.calls) : run.calls[i] = name })

\* the run is over, with this exit code
Exited(run) == run.pc = "done" /\ run.exit # None
ExitCode(run) == The(run.exit).code

\* a response came back (the call did not raise) and its body parsed
Answered(m) == m # None /\ ~The(m).raised
Parsed(m) == Answered(m) /\ The(m).json.kind # "invalid"

\* the guard's query returned a list with at least one open pull request
GuardFoundOpenPR(run) ==
    /\ Parsed(run.guard)
    /\ The(run.guard).json.kind = "list"
    /\ Len(The(run.guard).json.items) > 0

\* the guard's query returned the empty list
GuardFoundNone(run) ==
    /\ Parsed(run.guard)
    /\ The(run.guard).json.kind = "list"
    /\ The(run.guard).json.items = <<>>

\* compare answered 200 and its commit list is empty or absent
CompareEmpty(run) ==
    /\ Answered(run.compare)
    /\ The(run.compare).status_code = 200
    /\ ("commits" \in DOMAIN The(run.compare).json.fields
          => The(run.compare).json.fields.commits = <<>>)

\* compare answered 200 with at least one commit
CompareNonEmpty(run) ==
    /\ Answered(run.compare)
    /\ The(run.compare).status_code = 200
    /\ "commits" \in DOMAIN The(run.compare).json.fields
    /\ Len(The(run.compare).json.fields.commits) > 0

\* the platform answered the creation call with a 2xx: a PR now exists
CreatedPR(run) ==
    /\ Answered(run.create)
    /\ The(run.create).status_code \in 200..299

\* s ends with t
EndsWith(s, t) == Len(t) <= Len(s) /\ SubSeq(s, Len(s) - Len(t) + 1, Len(s)) = t

LastCall(run) == run.calls[Len(run.calls)]

-----------------------------------------------------------------------------
(* C1 *)

\* the guard's query was answered 200 with a JSON list
GuardAnswered(run) ==
    /\ Parsed(run.guard)
    /\ The(run.guard).status_code = 200
    /\ The(run.guard).json.kind = "list"

\* C1 as stated: in every run the PR-creation call is issued at most once,
\* every run that exits with code 0 has created exactly one PR, and the
\* creation call is issued only after the guard found no open PR and compare
\* returned a non-empty commit list.  (Stated for the runs whose guard query
\* the platform answered properly, so that what refutes it is a run in which
\* no call failed.)
C1_AsStated ==
    \A r \in Runs :
        LET run == runs[r]
        IN  /\ Count(run, "create") <= 1
            /\ (Exited(run) /\ ExitCode(run) = 0 /\ GuardAnswered(run))
                  => CreatedPR(run)
            /\ Issued(run, "create") => GuardFoundNone(run) /\ CompareNonEmpty(run)

\* the run ended at one of the three successful exits that come before the
\* creation call: the guard reported an open PR, compare found no commits,
\* or the dry-run flag is set
EndedBeforeCreation(run) ==
    \/ (Parsed(run.guard) /\ PyLen(The(run.guard).json) > 0)
    \/ CompareEmpty(run)
    \/ run.env.DRY_RUN

\* C1 amended: the PR-creation call is issued at most once per run; a run
\* that exits with code 0 has created exactly one PR, except that it has
\* created none when it ended at "PR already exists", at "no missing
\* commits" or in dry-run; and the creation call is issued only after the
\* guard found no open PR and compare returned a non-empty commit list.
C1_AtMostOnePR ==
    \A r \in Runs :
        LET run == runs[r]
        IN  /\ Count(run, "create") <= 1
            /\ (Exited(run) /\ ExitCode(run) = 0) =>
                  IF EndedBeforeCreation(run)
                  THEN ~Issued(run, "create")
                  ELSE CreatedPR(run) /\ Count(run, "create") = 1
            /\ Issued(run, "create") => GuardFoundNone(run) /\ CompareNonEmpty(run)

\* a run that created its PR and exited with code 0
C1_Witness ==
    \E r \in Runs :
        /\ Exited(runs[r]) /\ ExitCode(runs[r]) = 0
        /\ CreatedPR(runs[r])
        /\ GuardFoundNone(runs[r]) /\ CompareNonEmpty(runs[r])

-----------------------------------------------------------------------------
(* C2 *)

\* C2: when the guard's query returns a non-empty list, the guard's query is
\* the only network call of the run (no compare, completion, creation,
\* labels or reviewers call) and the run exits with code 0.
C2_DuplicateStops ==
    \A r \in Runs :
        GuardFoundOpenPR(runs[r]) =>
            /\ runs[r].calls = <<"guard">>
            /\ Exited(runs[r])
            /\ The(runs[r].exit) = Return

\* a run whose guard saw an open PR
C2_Witness ==
    \E r \in Runs : GuardFoundOpenPR(runs[r]) /\ Exited(runs[r])

-----------------------------------------------------------------------------
(* C3 *)

\* C3: when compare answers 200 with an empty commit list, the run exits
\* with code 0 and has built no report, issued no completion request,
\* created no PR and issued no labels or reviewers call, whatever the
\* ENABLE_AI and DRY_RUN flags.
C3_EmptyDiffStops ==
    \A r \in Runs :
        CompareEmpty(runs[r]) =>
            /\ Exited(runs[r])
            /\ ExitCode(runs[r]) = 0
            /\ runs[r].body = None
            /\ runs[r].calls = <<"guard", "compare">>

\* an empty diff met by a live run with the summarizer enabled
C3_Witness ==
    \E r \in Runs :
        /\ CompareEmpty(runs[r])
        /\ runs[r].env.ENABLE_AI
        /\ ~runs[r].env.DRY_RUN
        /\ Exited(runs[r])

-----------------------------------------------------------------------------
(* C4 *)

\* the three prints of the dry-run branch, appended to what was printed
DryRunPrints(run) ==
    run.out \o << <<"DRY-RUN MODE">>,
                  <<"PR Title:", " ">> \o Title(run.env),
                  <<"PR Body:", NL, " ">> \o The(run.body) >>

\* C4, first half: with DRY_RUN set the run never issues the creation, the
\* labels or the reviewers call, whatever ENABLE_AI is and whatever the guard,
\* compare and the summarizer returned
C4_NoMutatingCall ==
    \A r \in Runs :
        runs[r].env.DRY_RUN =>
            /\ ~Issued(runs[r], "create")
            /\ ~Issued(runs[r], "labels")
            /\ ~Issued(runs[r], "reviewers")

\* C4, second half: the step a dry-run takes at the publisher prints the
\* title and the body, issues no call and ends the run with exit code 0
C4_PublisherStep ==
    \A r \in Runs :
        (runs[r].pc = "publish" /\ runs[r].env.DRY_RUN /\ runs'[r] # runs[r]) =>
            /\ runs'[r].out = DryRunPrints(runs[r])
            /\ runs'[r].calls = runs[r].calls
            /\ runs'[r].pc = "done"
            /\ The(runs'[r].exit).code = 0
            /\ platform' = platform

\* C4: with DRY_RUN set no run ever issues the PR-creation, add-labels or
\* request-reviewers call; a dry-run that reaches the publisher prints title
\* and body and exits with code 0.
C4_DryRun == [](C4_NoMutatingCall) /\ [][C4_PublisherStep]_vars

\* a dry-run with the summarizer enabled that went through the publisher
C4_Witness ==
    \E r \in Runs :
        /\ runs[r].env.DRY_RUN /\ runs[r].env.ENABLE_AI
        /\ Exited(runs[r])
        /\ runs[r].body # None
        /\ Len(runs[r].out) >= 3
        /\ runs[r].out[Len(runs[r].out) - 2] = <<"DRY-RUN MODE">>
        /\ ExitCode(runs[r]) = 0

-----------------------------------------------------------------------------
(* C5 *)

\* the summarizer failed in one of the three ways: the library is missing,
\* the client cannot be constructed, the completion request fails
SummarizerFailed(run) ==
    /\ run.env.ENABLE_AI
    /\ run.ai # None
    /\ \/ The(run.ai).client \in {"ImportError", "OpenAIError"}
       \/ /\ "request" \in DOMAIN The(run.ai)
          /\ The(run.ai).request # "ok"

\* C5: with ENABLE_AI set, any failure of the summarizer (library missing,
\* client construction failing, the completion request failing) leaves the
\* report equal to the non-AI report and never aborts the run: the run goes
\* on to the Publish step.
C5_SummarizerDegrades ==
    \A r \in Runs :
        SummarizerFailed(runs[r]) =>
            /\ runs[r].body = Some(analyze_commits(The(runs[r].commits),
                                                   The(runs[r].files),
                                                   runs[r].env))
            /\ runs[r].pc \in {"publish", "labels", "reviewers", "done"}
            /\ Exited(runs[r]) =>
                  The(runs[r].exit) \notin
                     { Traceback("ImportError"), Traceback("OpenAIError"),
                       Traceback("APIConnectionError") }

-----------------------------------------------------------------------------
(* C6 *)

\* the guard's query failed: the transport raised, the body does not parse,
\* or the platform answered with an error status
GuardFailed(run) ==
    /\ run.guard # None
    /\ \/ The(run.guard).raised
       \/ The(run.guard).json.kind = "invalid"
       \/ The(run.guard).status_code # 200

\* C6: if the guard's query fails, the run ends as a fatal error with a
\* non-zero exit code: it never exits 0 reporting that a PR already exists
\* and it never goes on to Compare.
C6_GuardFailureFatal ==
    \A r \in Runs :
        GuardFailed(runs[r]) =>
            /\ Exited(runs[r])
            /\ ExitCode(runs[r]) # 0
            /\ ~Issued(runs[r], "compare")

-----------------------------------------------------------------------------
(* C7 *)

\* compare answered with a status other than 200
CompareRefused(run) ==
    Answered(run.compare) /\ The(run.compare).status_code # 200

\* the creation call was answered with a non-2xx status
CreateRefused(run) ==
    Answered(run.create) /\ The(run.create).status_code \notin 200..299

\* C7: a non-success answer to compare, or a non-2xx answer to the creation
\* call, ends the run at once with a non-zero exit whose message carries the
\* response body, and the failed call is the last network call of the run.
C7_RefusalIsFatal ==
    \A r \in Runs :
        LET run == runs[r]
        IN  /\ CompareRefused(run) =>
                 /\ Exited(run) /\ ExitCode(run) # 0
                 /\ EndsWith(The(run.exit).msg, The(run.compare).text)
                 /\ LastCall(run) = "compare"
            /\ CreateRefused(run) =>
                 /\ Exited(run) /\ ExitCode(run) # 0
                 /\ EndsWith(The(run.exit).msg, The(run.create).text)
                 /\ LastCall(run) = "create"

\* both refusals seen: one run refused at compare, the other at creation
C7_Witness ==
    \E r, q \in Runs : CompareRefused(runs[r]) /\ CreateRefused(runs[q])

-----------------------------------------------------------------------------
(* C8 *)

\* the annotation call failed: it raised, or was answered with an error
AnnotationFailed(m) ==
    m # None /\ (The(m).raised \/ The(m).status_code \notin 200..299)

\* C8: once the PR is created, a failure of the add-labels call or of the
\* request-reviewers call is discarded: after the labels call, whatever its
\* outcome, the run goes on to the reviewers call, and after the reviewers
\* call, whatever its outcome, the run ends by returning from main (exit
\* code 0), as it does when both calls succeed.
C8_AnnotationsBestEffort ==
    \A r \in Runs :
        LET run == runs[r]
        IN  /\ Issued(run, "labels") =>
                 \/ run.pc = "reviewers" /\ LastCall(run) = "labels"
                 \/ Issued(run, "reviewers")
            /\ Issued(run, "reviewers") =>
                 /\ Exited(run)
                 /\ The(run.exit) = Return
                 /\ SubSeq(run.calls, Len(run.calls) - 1, Len(run.calls))
                       = <<"labels", "reviewers">>

\* the labels call raised, the reviewers call was refused, the run exited 0
C8_Witness ==
    \E r \in Runs :
        /\ runs[r].labels = Some(Raised)
        /\ AnnotationFailed(runs[r].reviewers) /\ ~The(runs[r].reviewers).raised
        /\ Exited(runs[r]) /\ ExitCode(runs[r]) = 0

-----------------------------------------------------------------------------
(* C9 *)

\* l is the line of commit c: the first 7 characters of the hash (all of it
\* when shorter), the message up to its first line feed, the author
IsCommitLine(l, c) ==
    \E k \in 0..Len(c.sha), e \in 0..Len(c.commit.message) :
        /\ k <= 7 /\ (k = 7 \/ k = Len(c.sha))
        /\ \A i \in 1..e : c.commit.message[i] # NL
        /\ e = Len(c.commit.message) \/ c.commit.message[e + 1] = NL
        /\ l = <<"- '">> \o SubSeq(c.sha, 1, k) \o <<"' - ">>
                 \o SubSeq(c.commit.message, 1, e)
                 \o <<" _(by ">> \o c.commit.author.name \o <<")_">>

\* l is the line of file f, a count it does not carry being 0
IsFileLine(l, f) ==
    LET a == IF "additions" \in DOMAIN f THEN f.additions ELSE 0
        d == IF "deletions" \in DOMAIN f THEN f.deletions ELSE 0
    IN  l = <<"- '">> \o f.filename \o <<"' (+">> \o Decimal(a)
              \o <<" / -">> \o Decimal(d) \o <<")">>

\* the lines of the report are: 7 header lines naming the configured source
\* and target branch, one line per commit in the order given, 2 lines
\* opening the file section, one line per file in the order given, 3 footer
\* lines
ReportLayout(text, cs, fs, env) ==
    LET lines == Split(text)
        n == Len(cs)
        m == Len(fs)
    IN  /\ Len(lines) = n + m + 12
        /\ SubSeq(lines, 1, 7) =
             << <<"## Missing Fix Analysis">>, <<>>,
                <<"**Source:** '">>
                   \o (IF "HEAD_BRANCH" \in DOMAIN env THEN env.HEAD_BRANCH
                       ELSE <<"release123">>) \o <<"'">>,
                <<"**Target:** '">>
                   \o (IF "BASE_BRANCH" \in DOMAIN env THEN env.BASE_BRANCH
                       ELSE <<"develop">>) \o <<"'">>,
                <<"**Commits:** ">> \o Decimal(n), <<>>,
                <<"### Commit Summary">> >>
        /\ \A i \in 1..n : IsCommitLine(lines[7 + i], cs[i])
        /\ SubSeq(lines, n + 8, n + 9) = << <<>>, <<"### Files Impacted">> >>
        /\ \A j \in 1..m : IsFileLine(lines[n + 9 + j], fs[j])
        /\ SubSeq(lines, n + m + 10, n + m + 12) =
             << <<>>, <<"---">>, <<"_Auto-generated backport analysis._">> >>

\* C9: the report of analyze_commits holds exactly one line per commit and
\* one line per file, each in the order given (none moved, dropped or
\* repeated), the commit lines after the header and before the file lines,
\* the fixed footer last; a commit line carries the first 7 characters of
\* the hash, the first line of the message and the author; a file without
\* additions/deletions keys shows 0 and 0.  ReportLayout equates every line
\* of the text with an expression in the two lists and the configured
\* branches, so that one text only satisfies it for given inputs: the text
\* of a second call on the same lists, held to the same layout, is
\* therefore the text of the first.
C9_ReportLayout ==
    /\ report # None => ReportLayout(The(report), commits, files, environ)
    /\ again # None => ReportLayout(The(again), commits, files, environ)

\* a report built twice of two different commits, one with a hash longer
\* than 7 and one with a message of several lines, and of three different
\* files that are not in the order of their names, one file without counts
C9_Witness ==
    /\ report # None /\ again # None
    /\ Len(commits) = 2 /\ commits[1] # commits[2]
    /\ Len(commits[1].sha) > 7
    /\ \E i \in 1..Len(commits[2].commit.message) : commits[2].commit.message[i] = NL
    /\ Len(files) = 3
    /\ \A i, j \in 1..3 : i # j => files[i] # files[j]
    /\ files[1].filename[1] = "d" /\ files[2].filename[1] = "a"
    /\ DOMAIN files[2] = {"filename"}

-----------------------------------------------------------------------------
(* C10 *)

\* the open pull requests for HEAD_BRANCH into BASE_BRANCH
OpenPulls ==
    { i \in 1..Len(platform.pulls) :
        /\ platform.pulls[i].head = HEAD_BRANCH(runs[1].env)
        /\ platform.pulls[i].base = BASE_BRANCH(runs[1].env) }

\* C10: two invocations against the same branches are not coordinated, and
\* two open PRs for the one head/base pair arise only from the race: when
\* there are two, each run issued the creation call after its own guard had
\* seen no open PR, that is, each queried before the other created.
C10_DuplicatesOnlyByRace ==
    Cardinality(OpenPulls) >= 2 =>
        \A r \in Runs :
            /\ GuardFoundNone(runs[r])
            /\ CompareNonEmpty(runs[r])
            /\ CreatedPR(runs[r])

\* the race: both runs passed the guard, both created, two open PRs for the
\* same head/base pair ("at most one open PR per pair" does not hold)
C10_Witness ==
    /\ Cardinality(OpenPulls) = 2
    /\ \A r \in Runs : GuardFoundNone(runs[r]) /\ CreatedPR(runs[r])
    /\ platform.pulls[1].head = platform.pulls[2].head
    /\ platform.pulls[1].base = platform.pulls[2].base

====
